---- MODULE Spec2Model ----
(***************************************************************************)
(* State-machine model of game-gui (src/src/main.cpp, mg_colors.h).        *)
(*                                                                         *)
(* The program is one frame loop: drain the event queue, physics update,   *)
(* render to the game-art texture, then copy the texture to the OS window. *)
(* pc is the position in that loop.                                        *)
(*                                                                         *)
(* A float is modelled by the exact rational it stands for, [num, den].    *)
(*                                                                         *)
(* The spinner fleet (spinners[0..NSPIN-1]) is NSPIN independent copies of *)
(* one struct: every loop over the fleet touches only spinners[i].  The    *)
(* model follows one spinner of the fleet, whose index i is drawn at Init. *)
(***************************************************************************)
EXTENDS Integers, Naturals, Sequences, FiniteSets, TLC

VARIABLES
    pc,             \* position in main(): "start", "setup", "events", "physics",
                    \* "render", "window", "present", "teardown", "done", "abort",
                    \* "fault"
    argv,           \* char* argv[]: argv[1] is the program name (C's argv[0]), each
                    \* string a sequence of characters; argc is its length
    failed,         \* history: the SDL setup calls that returned an error
    out,            \* the lines written to standard output with puts()
    status,         \* exit status of main(), "running" until it returns
    is_fullscreen,  \* bool is_fullscreen
    quit,           \* bool quit
    RAT_CIRCLE,     \* GameDemo::RAT_CIRCLE (fixed at build time)
    BLOB,           \* GameDemo::BLOB (fixed at build time)
    GEN_CURVE,      \* GameDemo::GEN_CURVE (fixed at build time)
    RAINBOW_STATIC, \* GameDemo::RAINBOW_STATIC (fixed at build time)
    scale,          \* GameArt::scale (fixed at build time)
    wI,             \* WindowInfo wI: x, y, w, h
    dstrect,        \* SDL_Rect dstrect of the current iteration, NoRect outside its scope
    bgnd_color,     \* int bgnd_color, index into Colors::list
    fgnd_color,     \* int fgnd_color
    show_overlay,   \* bool show_overlay
    i,              \* index of the spinner followed, 0 <= i < NSPIN
    center_x,       \* float Spinner::center_x
    center_y,       \* float Spinner::center_y
    counter,        \* uint16_t Spinner::counter
    speed,          \* uint16_t Spinner::speed
    RADIUS,         \* uint8_t Spinner::RADIUS
    N,              \* int Spinner::N
    COUNT,          \* int Spinner::COUNT
    points,         \* Spinner::points, held as the parameters it was last computed from
    trail,          \* indices into points read by the last render, j |-> phase-j
    flag,           \* bool flag_up, flag_down, flag_left, flag_right, flag_bigger, flag_smaller
    Blob_center,    \* SDL_FPoint Blob::center
    Blob_radius,    \* float Blob::radius
    Blob_points,    \* Blob::points, held as the centre and radius it was last computed from
    Bmatrix,        \* BezierCurves::Bmatrix, held as the number of times
                    \* calc_Bmatrix() has run on the zero-initialized matrix
    curve,          \* control_points of the "Method 2" block of this frame's render;
                    \* its points are dCB_curve_points of them and Bmatrix
    ops,            \* history: steps of the current loop iteration, in the order executed
    teardowns,      \* history: how many times the teardown code has run
    call,           \* a call of RatCircle::x and RatCircle::y: arguments and results
    c0,             \* history: counter when observation started
    ticks           \* history: physics updates since then

vars == <<pc, argv, failed, out, status, is_fullscreen,
          quit, RAT_CIRCLE, BLOB, GEN_CURVE, RAINBOW_STATIC, scale, wI, dstrect,
          bgnd_color, fgnd_color, show_overlay,
          i, center_x, center_y, counter, speed, RADIUS, N, COUNT, points, trail,
          flag, Blob_center, Blob_radius, Blob_points, Bmatrix, curve,
          ops, teardowns, call, c0, ticks>>

winVars  == <<wI, dstrect>>
procVars == <<argv, failed, out, status, is_fullscreen>>
cfgVars  == <<RAT_CIRCLE, BLOB, GEN_CURVE, RAINBOW_STATIC, scale>>
colVars  == <<bgnd_color, fgnd_color>>
ctrVars  == <<center_x, center_y>>
spinVars == <<i, ctrVars, counter, speed, RADIUS, N, COUNT, points>>
blobVars == <<Blob_center, Blob_radius, Blob_points>>
histVars == <<c0, ticks>>

-----------------------------------------------------------------------------
(* Bounds of the model *)

MaxWin   == 40      \* window widths and heights 0..MaxWin are all explored
MaxScale == 2       \* GameArt::scale 1..MaxScale is explored next to 20 and 80
MaxTicks == 6       \* physics updates followed in the spinner specifications
MaxC0    == 1       \* counters within MaxC0 of either end of uint16_t start a run
MaxI     == 3       \* spinner indices 0..MaxI are followed
MaxBlobTicks == 1   \* physics updates followed in the blob specification
MaxND    == 9       \* RatCircle::x and y are called with n and d in 0..MaxND
MaxRand  == 1       \* std::rand()/RAND_MAX takes the values 0/MaxRand .. MaxRand/MaxRand
MaxArgs  == 5       \* the program is started with 0..MaxArgs arguments
MaxScreen == 1      \* F11 reports widths and heights 0..MaxScreen, next to larger ones
MaxRes   == 1       \* resolutions within MaxRes of 1 and of MAX_NUM_POINTS/4 are followed
MaxCalls == 2       \* calc_Bmatrix() is called up to MaxCalls times

-----------------------------------------------------------------------------
(* Program constants *)

GameArt_scale  == 80
NSPIN          == 2^12
NTRAIL         == 25
MAX_NUM_POINTS == (2^9) - 3
MAX_SPEED      == MAX_NUM_POINTS \div (2^4)
MIN_RADIUS     == 2
Colors_count   == 23
DARKGRAVEL     == 9
UINT8          == 2^8
UINT16         == 2^16

\* C integer division truncates toward zero
CDiv(a, b) ==
    IF (a >= 0) = (b > 0) THEN a \div b
    ELSE IF a % b = 0 THEN a \div b ELSE (a \div b) + 1

NoRect == [x |-> -1, y |-> -1, w |-> -1, h |-> -1]

\* a function with all its values computed, once
Stored(f) == f @@ << >>

-----------------------------------------------------------------------------
(* float: the exact rational [num, den] in lowest terms with den >= 0.      *)
(* den = 0 holds the IEEE 754 values the division produces when its        *)
(* divisor is zero: +inf is 1/0, -inf is -1/0, NaN is 0/0.                  *)

RECURSIVE gcd(_, _)
gcd(a, b) == IF b = 0 THEN a ELSE gcd(b, a % b)

Rat(a, b) ==
    LET aa == IF a < 0 THEN -a ELSE a
        bb == IF b < 0 THEN -b ELSE b
        g  == gcd(aa, bb)
        sg == IF b < 0 THEN -1 ELSE 1
    IN  IF g = 0 THEN [num |-> 0, den |-> 0]
        ELSE [num |-> sg * (a \div g), den |-> bb \div g]

NaN      == [num |-> 0, den |-> 0]
IsNaN(a) == a.num = 0 /\ a.den = 0
IsInf(a) == a.num # 0 /\ a.den = 0

\* static_cast<float>(n)
Float(n) == [num |-> n, den |-> 1]

FNeg(a) == [num |-> -a.num, den |-> a.den]

FAdd(a, b) ==
    IF IsNaN(a) \/ IsNaN(b) THEN NaN
    ELSE IF IsInf(a) /\ IsInf(b) THEN (IF a.num = b.num THEN a ELSE NaN)
    ELSE IF IsInf(a) THEN a
    ELSE IF IsInf(b) THEN b
    ELSE LET g == gcd(a.den, b.den)
         IN  Rat(a.num * (b.den \div g) + b.num * (a.den \div g),
                 (a.den \div g) * b.den)

FSub(a, b) == FAdd(a, FNeg(b))

\* the product, with the common factors taken out before multiplying
FMul(a, b) ==
    LET d1 == gcd(IF a.num < 0 THEN -a.num ELSE a.num, b.den)
        d2 == gcd(IF b.num < 0 THEN -b.num ELSE b.num, a.den)
        g1 == IF d1 = 0 THEN 1 ELSE d1
        g2 == IF d2 = 0 THEN 1 ELSE d2
    IN  Rat((a.num \div g1) * (b.num \div g2), (a.den \div g2) * (b.den \div g1))

\* a/b = a * (1/b); 1/0 is +inf, 1/inf is 0
FInv(b) == IF b.num < 0 THEN [num |-> -b.den, den |-> -b.num]
           ELSE [num |-> b.den, den |-> b.num]
FDiv(a, b) == FMul(a, FInv(b))

\* a <= b for finite a and b
FLeq(a, b) == a.num * b.den <= b.num * a.den

FPoint(px, py) == [x |-> px, y |-> py]

-----------------------------------------------------------------------------
(* GameArt *)

\* constexpr SDL_Rect rect = {0, 0, scale*16, scale*9}
rect(s) == [x |-> 0, y |-> 0, w |-> s * 16, h |-> s * 9]

center_src_in_win_nohalf(winrect, srcrect) ==
    [x |-> winrect.w - srcrect.w,
     y |-> winrect.h - srcrect.h,
     w |-> srcrect.w, h |-> srcrect.h]

center_src_in_win(winrect, srcrect) ==
    [x |-> CDiv(winrect.w - srcrect.w, 2),
     y |-> CDiv(winrect.h - srcrect.h, 2),
     w |-> srcrect.w, h |-> srcrect.h]

ratio_w(winrect, srcrect) == CDiv(winrect.w, srcrect.w)
ratio_h(winrect, srcrect) == CDiv(winrect.h, srcrect.h)

scale_K_larger(winrect, srcrect) ==
    IF ratio_w(winrect, srcrect) > ratio_h(winrect, srcrect)
    THEN ratio_w(winrect, srcrect) ELSE ratio_h(winrect, srcrect)

scale_K_one(winrect, srcrect) == 1

\* int K = (ratio_w > ratio_h) ? ratio_h : ratio_w;
scale_K(winrect, srcrect) ==
    IF ratio_w(winrect, srcrect) > ratio_h(winrect, srcrect)
    THEN ratio_h(winrect, srcrect) ELSE ratio_w(winrect, srcrect)

scalerect_fill(winrect, srcrect) ==
    [x |-> 0, y |-> 0,
     w |-> ratio_w(winrect, srcrect) * srcrect.w,
     h |-> ratio_h(winrect, srcrect) * srcrect.h]

\* SDL_Rect scalerect = {0, 0, K*srcrect.w, K*srcrect.h}
scalerect(winrect, srcrect) ==
    [x |-> 0, y |-> 0,
     w |-> scale_K(winrect, srcrect) * srcrect.w,
     h |-> scale_K(winrect, srcrect) * srcrect.h]

scales_both_zero(winrect, srcrect) ==
    ~ (ratio_w(winrect, srcrect) = 0 /\ ratio_h(winrect, srcrect) = 0)

\* if (  (ratio_w==0) || (ratio_h==0)  ) return srcrect;   scales: not returned here
scales(winrect, srcrect) ==
    ~ (ratio_w(winrect, srcrect) = 0 \/ ratio_h(winrect, srcrect) = 0)

\* assert( winrect.w >= scalerect.w ); assert( winrect.h >= scalerect.h );
scale_assert(winrect, srcrect) ==
    /\ winrect.w >= scalerect(winrect, srcrect).w
    /\ winrect.h >= scalerect(winrect, srcrect).h

scale_src_to_win_centered(winrect, srcrect) ==
    IF ~ scales(winrect, srcrect) THEN center_src_in_win(winrect, srcrect)
    ELSE center_src_in_win(winrect, scalerect(winrect, srcrect))

scale_src_to_win(winrect, srcrect) ==
    IF ~ scales(winrect, srcrect) THEN srcrect
    ELSE center_src_in_win(winrect, scalerect(winrect, srcrect))

-----------------------------------------------------------------------------
(* WindowInfo.  A C string is a sequence of characters; argv[1] is C's      *)
(* argv[0], so C's argv[k] is argv[k + 1] here.                             *)

ProgName == <<"m", "a", "i", "n">>

Digits == <<"0", "1", "2", "3", "4", "5", "6", "7", "8", "9">>
isdigit(c) == \E d \in 1..10 : Digits[d] = c
digit(c)   == (CHOOSE d \in 1..10 : Digits[d] = c) - 1
isspace(c) == c = " "

RECURSIVE skip_space(_, _)
skip_space(str, k) ==
    IF k > Len(str) THEN k
    ELSE IF isspace(str[k]) THEN skip_space(str, k + 1) ELSE k

RECURSIVE digits_value(_, _, _)
digits_value(str, k, acc) ==
    IF k > Len(str) THEN acc
    ELSE IF isdigit(str[k]) THEN digits_value(str, k + 1, 10 * acc + digit(str[k]))
    ELSE acc

\* atoi(argv[k]): leading blanks are skipped, then an optional sign, then the
\* decimal digits up to the first character that is not one; 0 without digits
atoi(str) ==
    LET k == skip_space(str, 1)
    IN  IF k > Len(str) THEN 0
        ELSE IF str[k] = "-" THEN 0 - digits_value(str, k + 1, 0)
        ELSE IF str[k] = "+" THEN digits_value(str, k + 1, 0)
        ELSE digits_value(str, k, 0)

\* WindowInfo(int argc, char* argv[]): x = 50; y = 50; w = 1*GameArt::rect.w;
\* h = 1*GameArt::rect.h; if(argc>1) x = atoi(argv[1]); if(argc>2) y = ...
WindowInfo(argc, av, s) ==
    [x |-> IF argc > 1 THEN atoi(av[2]) ELSE 50,
     y |-> IF argc > 2 THEN atoi(av[3]) ELSE 50,
     w |-> IF argc > 3 THEN atoi(av[4]) ELSE 1 * rect(s).w,
     h |-> IF argc > 4 THEN atoi(av[5]) ELSE 1 * rect(s).h]

-----------------------------------------------------------------------------
(* Colors *)

\* constexpr SDL_Color list[]: r, g, b, a of the 23 palette entries
Colors_list ==
    <<<<255, 255, 255, 255>>,
      <<0, 0, 0, 255>>,
      <<248, 246, 242, 255>>,
      <<217, 206, 195, 255>>,
      <<153, 143, 132, 255>>,
      <<133, 127, 120, 255>>,
      <<102, 100, 98, 255>>,
      <<69, 65, 59, 255>>,
      <<53, 50, 45, 255>>,
      <<36, 35, 33, 255>>,
      <<28, 27, 26, 255>>,
      <<20, 20, 19, 255>>,
      <<250, 222, 62, 255>>,
      <<244, 207, 134, 255>>,
      <<255, 44, 75, 255>>,
      <<140, 255, 186, 255>>,
      <<10, 157, 255, 255>>,
      <<255, 167, 36, 255>>,
      <<174, 238, 0, 255>>,
      <<255, 158, 184, 255>>,
      <<184, 136, 83, 255>>,
      <<199, 145, 91, 255>>,
      <<136, 99, 63, 255>>>>

\* int contrasts(int index): the switch, case 16 falls to default
contrasts(index) ==
    CASE index = 0 -> 1
      [] index = 1 -> 0
      [] index \in 2..5 -> 1
      [] index \in 6..11 -> 0
      [] index \in 12..15 -> 1
      [] index = 17 -> 0
      [] index \in 18..21 -> 1
      [] index = 22 -> 0
      [] OTHER -> 1

-----------------------------------------------------------------------------
(* RatCircle::Spinner *)

\* what main() draws for a spawned spinner
SpawnRadius == 2..63                    \* (rand() % 62) + 2
SpawnSpeed  == 1..10                    \* (rand() % 10) + 1
SpawnPhase  == 0..(MAX_NUM_POINTS - 1)  \* rand() % MAX_NUM_POINTS

\* Spinner::Spinner : N = MAX_NUM_POINTS/(1<<2); COUNT = N << 2
Spinner_N     == MAX_NUM_POINTS \div (2^2)
Spinner_COUNT == Spinner_N * (2^2)

\* float x(int n, int d): t = n/d, return (1-(t*t))/(1+(t*t))
x(n, d) ==
    LET t == FDiv(Float(n), Float(d))
    IN  FDiv(FSub(Float(1), FMul(t, t)), FAdd(Float(1), FMul(t, t)))

y_over_one_minus(n, d) ==
    LET t == FDiv(Float(n), Float(d))
    IN  FDiv(FMul(Float(2), t), FSub(Float(1), FMul(t, t)))

\* float y(int n, int d): t = n/d, return (2*t)/(1+(t*t))
y(n, d) ==
    LET t == FDiv(Float(n), Float(d))
    IN  FDiv(FMul(Float(2), t), FAdd(Float(1), FMul(t, t)))

\* Make a quarter circle: points[i] = {x(n,d), y(n,d)} with n = i, d = N
quarter_circle(n) == [k \in 0..(n - 1) |-> FPoint(x(k, n), y(k, n))]

rotate_point_mirrored(p) == FPoint(p.y, p.x)

\* SDL_FPoint{.x = -1*points[i-N].y, .y = points[i-N].x}
rotate_point(p) == FPoint(FMul(Float(-1), p.y), p.x)

\* Make the other three-quarters: points[i] is points[i-N] rotated, i = N..COUNT-1
RECURSIVE unit_point(_, _, _)
unit_point(q, n, k) ==
    IF k < n THEN q[k] ELSE rotate_point(unit_point(q, n, k - n))

\* the three loops of calc_circle_points(): the indices written are 0..COUNT-1
circle_points(n, cnt, r, cx, cy) ==
    LET q == Stored(quarter_circle(n))
    IN  [k \in 0..(cnt - 1) |->
            LET u == unit_point(q, n, k)
            IN  FPoint(FAdd(FMul(Float(r), u.x), cx),
                       FAdd(FMul(Float(r), u.y), cy))]

calc_circle_points_not_rescaled(n, cnt, r) == [N |-> n, COUNT |-> cnt, RADIUS |-> MIN_RADIUS]

\* calc_circle_points() rewrites points[0..COUNT-1] from N, COUNT and RADIUS;
\* the buffer is held as the parameters it was computed from
calc_circle_points(n, cnt, r) == [N |-> n, COUNT |-> cnt, RADIUS |-> r]

NoPoints == [N |-> 0, COUNT |-> 0, RADIUS |-> 0]

increase_resolution_noclamp(n) == n + 1

\* N++; if (4*N > MAX_NUM_POINTS) N = MAX_NUM_POINTS/(1<<2);
increase_resolution_N(n) ==
    IF 4 * (n + 1) > MAX_NUM_POINTS THEN MAX_NUM_POINTS \div (2^2) ELSE n + 1

\* N--; if (N < 1) N = 1;
decrease_resolution_N(n) == IF n - 1 < 1 THEN 1 ELSE n - 1

\* int MAX = GameArt::rect.h/2
MAX_RADIUS(s) == CDiv(rect(s).h, 2)

\* spinners[i]->RADIUS++; if (spinners[i]->RADIUS > MAX) spinners[i]->RADIUS = MAX;
\* RADIUS is uint8_t: the increment is modulo 2^8, the comparison is in int
inc_radius(r, MAX) ==
    LET r1 == (r + 1) % UINT8
    IN  IF r1 > MAX THEN MAX % UINT8 ELSE r1

\* spinners[i]->RADIUS--; int MIN = 2; if (spinners[i]->RADIUS<MIN) spinners[i]->RADIUS=MIN;
dec_radius(r) ==
    LET r1 == (r + UINT8 - 1) % UINT8
    IN  IF r1 < MIN_RADIUS THEN MIN_RADIUS ELSE r1

\* spinners[i]->speed++; if (spinners[i]->speed > MAX_SPEED) spinners[i]->speed = MAX_SPEED;
inc_speed(s) ==
    LET s1 == (s + 1) % UINT16
    IN  IF s1 > MAX_SPEED THEN MAX_SPEED ELSE s1

dec_speed_noclamp(s) == (s + UINT16 - 1) % UINT16

\* spinners[i]->speed--; if (spinners[i]->speed==0) spinners[i]->speed=1;
dec_speed(s) ==
    LET s1 == (s + UINT16 - 1) % UINT16
    IN  IF s1 = 0 THEN 1 ELSE s1

\* for( int j=0; j<spinners[i]->speed; j++) spinners[i]->counter++;   (uint16_t)
RECURSIVE advance(_, _)
advance(c, n) == IF n <= 0 THEN c ELSE advance((c + 1) % UINT16, n - 1)

\* SDL_Color c = Colors::list[i%Colors::count]: the palette index of spinner k
spinner_color(k) == k % Colors_count

\* int index = i%Colors::count; if (index == bgnd_color) index++;
spinner_index(k, bgnd) ==
    LET index == k % Colors_count
    IN  IF index = bgnd THEN index + 1 ELSE index

\* int ntrail = (index == fgnd_color) ? NTRAIL : 1;
spinner_ntrail(k, bgnd, fgnd) == IF spinner_index(k, bgnd) = fgnd THEN NTRAIL ELSE 1

\* int phase = counter%COUNT;
spinner_phase(c, cnt) == c % cnt

\* for(int j=0; j<ntrail; j++) ... spinners[i]->points[phase-j]
trail_reads(k, bgnd, fgnd, c, cnt) ==
    [j \in 0..(spinner_ntrail(k, bgnd, fgnd) - 1) |-> spinner_phase(c, cnt) - j]

\* an index outside the malloc'ed block of MAX_NUM_POINTS points
outside_buffer(idx) == idx < 0 \/ idx >= MAX_NUM_POINTS

-----------------------------------------------------------------------------
(* BezierCurves *)

ORDER == 2
NC    == ORDER + 1
K     == 128

Rows == 0..(NC - 1)
Cols == 0..(K - 1)

\* float B0[K]{}; float B1[K]{}; float B2[K]{};   zero-initialized
ZeroMatrix == [r \in Rows |-> [k \in Cols |-> Float(0)]]

Pmatrix_symmetric ==
    [r \in Rows |-> [j \in Rows |->
        Float((<< <<1, -2, 1>>, <<0, 2, -1>>, <<0, 0, 1>> >>)[r + 1][j + 1])]]

\* Pmatrix = {B_02, B_12, B_22}
Pmatrix ==
    [r \in Rows |-> [j \in Rows |->
        Float((<< <<1, -2, 1>>, <<0, 2, -2>>, <<0, 0, 1>> >>)[r + 1][j + 1])]]

\* Tmatrix = {T_0, T_1, T_2}: T_0[i] = 1, T_1[i] = t, T_2[i] = t*t, t = i/K
Tmatrix ==
    [j \in Rows |-> [k \in Cols |->
        LET t == FDiv(Float(k), Float(K))
        IN  CASE j = 0 -> Float(1)
              [] j = 1 -> t
              [] j = 2 -> FMul(t, t)]]

\* for (j = 0; j < NC; j++) Bmatrix[i][k] += Pmatrix[i][j]*Tmatrix[j][k];
RECURSIVE Bik(_, _, _, _)
Bik(b, r, k, j) ==
    IF j >= NC THEN b
    ELSE Bik(FAdd(b, FMul(Pmatrix[r][j], Tmatrix[j][k])), r, k, j + 1)

\* void calc_Bmatrix(void): adds P*T onto the Bmatrix it finds
calc_Bmatrix(B) == [r \in Rows |-> [k \in Cols |-> Bik(B[r][k], r, k, 0)]]

\* for (j = 0; j < NC; j++) points[k] += control_points[j]*Bmatrix[j][k];
RECURSIVE curve_point(_, _, _, _, _)
curve_point(p, cp, B, k, j) ==
    IF j >= NC THEN p
    ELSE curve_point(FPoint(FAdd(p.x, FMul(cp[j].x, B[j][k])),
                            FAdd(p.y, FMul(cp[j].y, B[j][k]))), cp, B, k, j + 1)

dCB_curve_points_from_P0(cp, B) ==
    [k \in Cols |-> curve_point(cp[0], cp, B, k, 0)]

\* void dCB_curve_points(control_points, points): points[k] starts from {0,0}
dCB_curve_points(cp, B) ==
    [k \in Cols |-> curve_point(FPoint(Float(0), Float(0)), cp, B, k, 0)]

\* "Method 1": the curve from the convex affine combinations
\* Q0 = (1-t)*P0 + t*P1, Q1 = (1-t)*P1 + t*P2, point = (1-t)*Q0 + t*Q1
join(t, a, b) == FAdd(FMul(FSub(Float(1), t), a), FMul(t, b))

affine_curve_points(cp) ==
    [k \in Cols |->
        LET t  == FDiv(Float(k), Float(K))
            Q0 == FPoint(join(t, cp[0].x, cp[1].x), join(t, cp[0].y, cp[1].y))
            Q1 == FPoint(join(t, cp[1].x, cp[2].x), join(t, cp[1].y, cp[2].y))
        IN  FPoint(join(t, Q0.x, Q1.x), join(t, Q0.y, Q1.y))]

\* std::rand()/MAX lies in [0, 1]: the values j/MaxRand are explored
RandUnit == {Rat(j, MaxRand) : j \in 0..MaxRand}

\* control_points[i].x = (std::rand()/MAX) - 0.5, then *= SCALE, += OFFSET_X
\* with SCALE = GameArt::rect.w/2, OFFSET_X = rect.w/2, OFFSET_Y = rect.h/2
control_point(u, v, s) ==
    LET SCALE    == CDiv(rect(s).w, 2)
        OFFSET_X == CDiv(rect(s).w, 2)
        OFFSET_Y == CDiv(rect(s).h, 2)
    IN  FPoint(FAdd(FMul(FSub(u, Rat(1, 2)), Float(SCALE)), Float(OFFSET_X)),
               FAdd(FMul(FSub(v, Rat(1, 2)), Float(SCALE)), Float(OFFSET_Y)))

\* SDL_FPoint control_points[NC] for the six values rnd drawn from std::rand()
control_points(rnd, s) ==
    [j \in Rows |-> control_point(rnd[2 * j + 1], rnd[2 * j + 2], s)]

\* Bmatrix after calc_Bmatrix() has run calls times on the zero-initialized matrix
RECURSIVE Bmatrix_after(_)
Bmatrix_after(calls) ==
    IF calls = 0 THEN ZeroMatrix ELSE calc_Bmatrix(Bmatrix_after(calls - 1))

\* the two matrices a run of main() can hold, tabulated once
Tabulated(B)  == [r \in Rows |-> (B[r] @@ << >>)] @@ << >>
Bmatrix_zero == Tabulated(ZeroMatrix)
Bmatrix_once == Tabulated(Bmatrix_after(1))

NoCurve == [control_points |-> << >>]

-----------------------------------------------------------------------------
(* Blob *)

Flags   == {"up", "down", "left", "right", "bigger", "smaller"}
NoFlags == [f \in Flags |-> FALSE]
WASD    == {"W", "A", "S", "D"}

\* Blob::radius--; if (Blob::radius <=2) Blob::radius = 2;
blob_smaller(r) ==
    LET r1 == FSub(r, Float(1))
    IN  IF FLeq(r1, Float(2)) THEN Float(2) ELSE r1

\* Blob::radius++; float MAX = GameArt::rect.w/4; if (Blob::radius >=MAX) Blob::radius = MAX;
blob_bigger(r, s) ==
    LET r1  == FAdd(r, Float(1))
        MAX == Float(CDiv(rect(s).w, 4))
    IN  IF FLeq(MAX, r1) THEN MAX ELSE r1

\* if(flag_smaller) {...} if(flag_bigger) {...}
blob_resize(f, r, s) ==
    LET r1 == IF f.smaller THEN blob_smaller(r) ELSE r
    IN  IF f.bigger THEN blob_bigger(r1, s) ELSE r1

\* const float move_amount = Blob::radius/4;
move_amount(r) == FDiv(r, Float(4))

\* if(flag_down) center.y += m; if(flag_up) center.y -= m;
\* if(flag_left) center.x -= m; if(flag_right) center.x += m;
blob_move(f, c, m) ==
    LET y1 == IF f.down THEN FAdd(c.y, m) ELSE c.y
        y2 == IF f.up THEN FSub(y1, m) ELSE y1
        x1 == IF f.left THEN FSub(c.x, m) ELSE c.x
        x2 == IF f.right THEN FAdd(x1, m) ELSE x1
    IN  FPoint(x2, y2)

flags_keep_up(f) == [g \in Flags |-> g = "up" /\ f[g]]

\* every if(flag_x) block starts with flag_x = false
flags_consumed(f) == [g \in Flags |-> IF f[g] THEN FALSE ELSE f[g]]

Blob_N    == 6
Blob_FULL == Blob_N * 4
JIGAMT    == Rat(1, 10)

jiggle_x_only(p, r) ==
    LET jiggle == FSub(r, Rat(1, 2))
    IN  FPoint(FAdd(p.x, FMul(JIGAMT, jiggle)), p.y)

\* float jiggle = (static_cast<float>(std::rand()) / RAND_MAX) - 0.5;
\* points[i].x += JIGAMT*jiggle; points[i].y += JIGAMT*jiggle;
\* r is std::rand()/RAND_MAX
jiggle_point(p, r) ==
    LET jiggle == FSub(r, Rat(1, 2))
    IN  FPoint(FAdd(p.x, FMul(JIGAMT, jiggle)), FAdd(p.y, FMul(JIGAMT, jiggle)))

\* Make a quarter circle: points[i] = {x(i,N), y(i,N)}, jiggled by the draw
\* rnd[i + 1] made for it; points_debug[i] = {x(i,N), y(i,N)}
blob_quarter_debug ==
    Stored([k \in 0..(Blob_N - 1) |-> FPoint(x(k, Blob_N), y(k, Blob_N))])
blob_quarter(rnd) ==
    Stored([k \in 0..(Blob_N - 1) |-> jiggle_point(blob_quarter_debug[k], rnd[k + 1])])

\* Make the other three-quarters of the circle: point i is point i-N of the
\* same buffer rotated a quarter-circle, {-1*p.y, p.x}, for i = N..FULL-1
blob_unit(q) == Stored([k \in 0..(Blob_FULL - 1) |-> unit_point(q, Blob_N, k)])

\* Scale circle by radius and offset by center
blob_scale(u, c, r) ==
    Stored([k \in 0..(Blob_FULL - 1) |->
               FPoint(FAdd(FMul(r, u[k].x), c.x), FAdd(FMul(r, u[k].y), c.y))])

close_shape_left_open(b) == b

\* points[FULL-1] = points[0]; points_debug[FULL-1] = points_debug[0];
close_shape(b) == [b EXCEPT ![Blob_FULL - 1] = b[0]]

\* the block "Make the circle": both buffers, from the centre, the radius and
\* the N values rnd drawn from std::rand()
make_the_circle(c, r, rnd) ==
    [points       |-> close_shape(blob_scale(blob_unit(blob_quarter(rnd)), c, r)),
     points_debug |-> close_shape(blob_scale(blob_unit(blob_quarter_debug), c, r))]

\* Blob::points and Blob::points_debug are held as the values "Make the
\* circle" last computed them from
blob_circle(c, r, rnd) == [center |-> c, radius |-> r, jiggle |-> rnd]

NoBlobPoints == [center |-> FPoint(Float(0), Float(0)), radius |-> Float(0),
                 jiggle |-> << >>]

\* std::rand() returns RAND_MAX in every draw of a tick
NoJiggle == [k \in 1..Blob_N |-> Float(1)]

-----------------------------------------------------------------------------
(* Initial states: the state of main() when the game loop is first entered *)

\* window sizes the OS reports: every size up to MaxWin, and sizes around the
\* art sizes 320x180 (scale 20) and 1280x720 (scale 80)
WinSizes ==
    (0..MaxWin) \cup {100, 179, 180, 319, 320, 360, 500, 640, 719, 720,
                      1000, 1080, 1279, 1280, 1440, 1920, 2560}

\* the sizes of a desktop, or of the window taken out of fullscreen: every
\* size up to MaxScreen, and sizes around the art size 1280x720
ScreenSizes == (0..MaxScreen) \cup {719, 720, 1080, 1279, 1280, 1440, 2560}

\* GameArt::scale is a build-time choice ("Try scale=10, 20, 40, 60, 80")
Scales == (1..MaxScale) \cup {20, GameArt_scale}

NoCall == [n |-> 0, d |-> 0, returned |-> FALSE, x |-> NaN, y |-> NaN]

\* the locals of main() before the loop
InitMain(s) ==
    /\ quit = FALSE
    /\ scale = s
    /\ argv = <<ProgName>>
    /\ wI = WindowInfo(Len(argv), argv, s)
    /\ is_fullscreen = FALSE
    /\ failed = {}
    /\ out = << >>
    /\ status = "running"
    /\ dstrect = NoRect
    /\ show_overlay = FALSE
    /\ flag = NoFlags
    /\ trail = << >>
    /\ curve = NoCurve
    /\ ops = << >>
    /\ teardowns = 0
    /\ ticks = 0

\* GameDemo::BLOB == false: the globals of namespace Blob stay zero-initialized
InitNoBlob ==
    /\ BLOB = FALSE
    /\ Blob_center = FPoint(Float(0), Float(0))
    /\ Blob_radius = Float(0)
    /\ Blob_points = NoBlobPoints

\* Blob::center = {rect.w/2, rect.h/2}; Blob::radius = rect.w/12; points malloc'ed
InitBlob(s) ==
    /\ BLOB = TRUE
    /\ Blob_center = FPoint(Float(CDiv(rect(s).w, 2)), Float(CDiv(rect(s).h, 2)))
    /\ Blob_radius = Float(CDiv(rect(s).w, 12))
    /\ Blob_points = NoBlobPoints

\* the build of the repository: BLOB, GEN_CURVE and RAINBOW_STATIC are false,
\* calc_Bmatrix() is not called
InitBuild ==
    /\ InitNoBlob
    /\ GEN_CURVE = FALSE
    /\ RAINBOW_STATIC = FALSE
    /\ Bmatrix = 0

InitLoop(s) ==
    /\ pc = "events"
    /\ InitMain(s)
    /\ InitBuild
    /\ call = NoCall

InitColors(B) ==
    /\ bgnd_color \in B
    /\ fgnd_color = contrasts(bgnd_color)

\* RAT_CIRCLE == false: no spinner is allocated
InitNoSpinner ==
    /\ RAT_CIRCLE = FALSE
    /\ i = 0 /\ counter = 0 /\ speed = 0 /\ RADIUS = 0
    /\ center_x = Float(0) /\ center_y = Float(0)
    /\ N = 0 /\ COUNT = 0 /\ points = NoPoints
    /\ c0 = 0

\* float M = 0.01*W; border = {M, M, W-2*M, H-2*M};
\* float x = (rand() * (border.w-3)) / RAND_MAX + (border.x+1), y alike with
\* border.h and border.y: the two ends of the range
spawn_margin(s) == FMul(Rat(1, 100), Float(rect(s).w))
SpawnX(s) == {FAdd(spawn_margin(s), Float(1)),
              FSub(FSub(Float(rect(s).w), spawn_margin(s)), Float(2))}
SpawnY(s) == {FAdd(spawn_margin(s), Float(1)),
              FSub(FSub(Float(rect(s).h), spawn_margin(s)), Float(2))}

\* spinners[i] = new RatCircle::Spinner(x,y,r,s,p)
InitSpinnerAt(X, Y, I, R, S, P) ==
    /\ RAT_CIRCLE = TRUE
    /\ i \in I
    /\ center_x \in X
    /\ center_y \in Y
    /\ RADIUS \in R
    /\ speed \in S
    /\ counter \in P
    /\ N = Spinner_N
    /\ COUNT = Spinner_COUNT
    /\ points = calc_circle_points(N, COUNT, RADIUS)
    /\ c0 = counter

\* a spinner spawned in the middle of the game art
InitSpinner(I, R, S, P) ==
    InitSpinnerAt({Float(CDiv(rect(GameArt_scale).w, 2))},
                  {Float(CDiv(rect(GameArt_scale).h, 2))}, I, R, S, P)

-----------------------------------------------------------------------------
(* SETUP: everything main() does before the game loop *)

\* WindowInfo wI(argc, argv);
Start ==
    /\ pc = "start"
    /\ pc' = "setup"
    /\ wI' = WindowInfo(Len(argv), argv, scale)
    /\ UNCHANGED <<quit, cfgVars, procVars, dstrect, colVars, show_overlay, spinVars,
                   trail, flag, blobVars, Bmatrix, curve, ops, teardowns, call,
                   histVars>>

\* the calls of the block "SDL Setup", in the order made
SetupCalls == <<"SDL_Init", "SDL_CreateWindow", "SDL_CreateRenderer",
                "SDL_SetRenderDrawBlendMode", "SDL_CreateTexture",
                "SDL_SetTextureBlendMode">>

\* the handle a setup call is given, by the call that made it
\* (win for SDL_CreateRenderer, ren for SDL_SetRenderDrawBlendMode and
\* SDL_CreateTexture, GameArt::tex for SDL_SetTextureBlendMode)
handle_from(c) ==
    CASE c = "SDL_CreateRenderer" -> {"SDL_CreateWindow"}
      [] c = "SDL_SetRenderDrawBlendMode" -> {"SDL_CreateRenderer"}
      [] c = "SDL_CreateTexture" -> {"SDL_CreateRenderer"}
      [] c = "SDL_SetTextureBlendMode" -> {"SDL_CreateTexture"}
      [] OTHER -> {}

\* the calls that return an error when the platform cannot perform the calls
\* in env: a call fails for its own reason, or because the handle it is
\* given is NULL, the call that made the handle having failed.  No return
\* value but the last is looked at, so every call is made, once
RECURSIVE sdl_setup(_, _, _)
sdl_setup(env, k, bad) ==
    IF k > Len(SetupCalls) THEN bad
    ELSE LET c == SetupCalls[k]
         IN  IF c \in env THEN sdl_setup(env, k + 1, bad \cup {c})
             ELSE IF handle_from(c) \cap bad # {}
                  THEN sdl_setup(env, k + 1, bad \cup {c})
                  ELSE sdl_setup(env, k + 1, bad)

\* if(SDL_SetTextureBlendMode(GameArt::tex, SDL_BLENDMODE_BLEND) < 0)
setup_fails(bad) == "SDL_SetTextureBlendMode" \in bad

\* the block "SDL Setup": on failure puts(...); shutdown(); return EXIT_FAILURE;
\* otherwise the initial game state, then
\* if( GameDemo::GEN_CURVE ) BezierCurves::calc_Bmatrix();
main_setup(env) ==
    /\ pc = "setup"
    /\ failed' = sdl_setup(env, 1, {})
    /\ IF setup_fails(failed')
       THEN /\ out' = Append(out, "Cannot set texture to blendmode blend.")
            /\ teardowns' = teardowns + 1
            /\ status' = "EXIT_FAILURE"
            /\ pc' = "done"
            /\ UNCHANGED Bmatrix
       ELSE /\ pc' = "events"
            /\ Bmatrix' = IF GEN_CURVE THEN Bmatrix + 1 ELSE Bmatrix
            /\ UNCHANGED <<out, teardowns, status>>
    /\ UNCHANGED <<quit, cfgVars, argv, is_fullscreen, winVars, colVars, show_overlay,
                   spinVars, trail, flag, blobVars, curve, ops, call, histVars>>

\* every setup call succeeds
Setup == main_setup({})

\* the platform cannot perform some of the setup calls
SetupFailure ==
    \E env \in SUBSET {SetupCalls[k] : k \in DOMAIN SetupCalls} :
        /\ env # {}
        /\ main_setup(env)

-----------------------------------------------------------------------------
(* UI - EVENT HANDLER: one action per event taken from the queue *)

\* if (e.type == SDL_QUIT) quit = true;
SDL_QUIT ==
    /\ pc = "events"
    /\ quit' = TRUE
    /\ UNCHANGED <<pc, cfgVars, procVars, winVars, colVars, show_overlay, spinVars, trail,
                   flag, blobVars, Bmatrix, curve, ops, teardowns, call, histVars>>

\* case SDLK_q: quit = true;
SDLK_q ==
    /\ pc = "events"
    /\ quit' = TRUE
    /\ UNCHANGED <<pc, cfgVars, procVars, winVars, colVars, show_overlay, spinVars, trail,
                   flag, blobVars, Bmatrix, curve, ops, teardowns, call, histVars>>

\* case SDL_WINDOWEVENT_RESIZED: SDL_GetWindowSize(win, &(wI.w), &(wI.h));
SDL_WINDOWEVENT_RESIZED(w, h) ==
    /\ pc = "events"
    /\ wI' = [wI EXCEPT !.w = w, !.h = h]
    /\ UNCHANGED <<pc, quit, cfgVars, procVars, dstrect, colVars, show_overlay, spinVars, trail,
                   flag, blobVars, Bmatrix, curve, ops, teardowns, call, histVars>>

\* case SDLK_F11: is_fullscreen = !is_fullscreen; SDL_SetWindowFullscreen(...);
\* SDL_GetWindowSize(win, &(wI.w), &(wI.h)); the window is then w by h
SDLK_F11(w, h) ==
    /\ pc = "events"
    /\ is_fullscreen' = ~ is_fullscreen
    /\ wI' = [wI EXCEPT !.w = w, !.h = h]
    /\ UNCHANGED <<pc, quit, cfgVars, argv, failed, out, status, dstrect, colVars,
                   show_overlay, spinVars, trail, flag, blobVars, Bmatrix, curve, ops,
                   teardowns, call, histVars>>

\* case SDLK_SLASH: if( kmod&KMOD_SHIFT ) show_overlay = !show_overlay;
SDLK_SLASH(shift) ==
    /\ pc = "events"
    /\ show_overlay' = IF shift THEN ~ show_overlay ELSE show_overlay
    /\ UNCHANGED <<pc, quit, cfgVars, procVars, winVars, colVars, spinVars, trail,
                   flag, blobVars, Bmatrix, curve, ops, teardowns, call, histVars>>

\* case SDLK_k
SDLK_k(shift) ==
    /\ pc = "events"
    /\ IF RAT_CIRCLE
       THEN IF shift
            THEN /\ RADIUS' = inc_radius(RADIUS, MAX_RADIUS(scale))
                 /\ points' = calc_circle_points(N, COUNT, RADIUS')
                 /\ UNCHANGED speed
            ELSE /\ speed' = inc_speed(speed)
                 /\ UNCHANGED <<RADIUS, points>>
       ELSE UNCHANGED <<RADIUS, points, speed>>
    /\ flag' = IF ~ BLOB THEN flag
               ELSE IF shift THEN [flag EXCEPT !.bigger = TRUE]
               ELSE [flag EXCEPT !.up = TRUE]
    /\ UNCHANGED <<pc, quit, cfgVars, procVars, winVars, colVars, show_overlay, i, ctrVars,
                   counter, N, COUNT, trail, blobVars, Bmatrix, curve, ops,
                   teardowns, call, histVars>>

\* case SDLK_j
SDLK_j(shift) ==
    /\ pc = "events"
    /\ IF RAT_CIRCLE
       THEN IF shift
            THEN /\ RADIUS' = dec_radius(RADIUS)
                 /\ points' = calc_circle_points(N, COUNT, RADIUS')
                 /\ UNCHANGED speed
            ELSE /\ speed' = dec_speed(speed)
                 /\ UNCHANGED <<RADIUS, points>>
       ELSE UNCHANGED <<RADIUS, points, speed>>
    /\ flag' = IF ~ BLOB THEN flag
               ELSE IF shift THEN [flag EXCEPT !.smaller = TRUE]
               ELSE [flag EXCEPT !.down = TRUE]
    /\ UNCHANGED <<pc, quit, cfgVars, procVars, winVars, colVars, show_overlay, i, ctrVars,
                   counter, N, COUNT, trail, blobVars, Bmatrix, curve, ops,
                   teardowns, call, histVars>>

\* case SDLK_h: if (GameDemo::BLOB) flag_left = true;
SDLK_h ==
    /\ pc = "events"
    /\ flag' = IF BLOB THEN [flag EXCEPT !.left = TRUE] ELSE flag
    /\ UNCHANGED <<pc, quit, cfgVars, procVars, winVars, colVars, show_overlay, spinVars, trail,
                   blobVars, Bmatrix, curve, ops, teardowns, call, histVars>>

\* case SDLK_l: if (GameDemo::BLOB) flag_right = true;
SDLK_l ==
    /\ pc = "events"
    /\ flag' = IF BLOB THEN [flag EXCEPT !.right = TRUE] ELSE flag
    /\ UNCHANGED <<pc, quit, cfgVars, procVars, winVars, colVars, show_overlay, spinVars, trail,
                   blobVars, Bmatrix, curve, ops, teardowns, call, histVars>>

\* the user drags a vertical or a horizontal edge of the window: SDL_GetWindowSize
\* then reports a new width, or a new height, next to the other dimension as it was
ResizeW    == \E w \in WinSizes : SDL_WINDOWEVENT_RESIZED(w, wI.h)
ResizeH    == \E h \in WinSizes : SDL_WINDOWEVENT_RESIZED(wI.w, h)
KeyK       == SDLK_k(FALSE)
KeyShiftK  == SDLK_k(TRUE)
KeyJ       == SDLK_j(FALSE)
KeyShiftJ  == SDLK_j(TRUE)
KeySlash   == \E shift \in BOOLEAN : SDLK_SLASH(shift)

\* F11: the desktop, or the window restored, has one of the sizes explored
KeyF11     == \E w \in ScreenSizes : \E h \in ScreenSizes : SDLK_F11(w, h)

\* if( k[SDL_SCANCODE_W] ) flag_up = true; ... A: left, S: down, D: right
wasd_flags(f, held) ==
    LET key_flag == [k \in WASD |->
                        CASE k = "W" -> "up" [] k = "A" -> "left"
                          [] k = "S" -> "down" [] k = "D" -> "right"]
    IN  [g \in Flags |-> IF f[g] THEN TRUE ELSE g \in {key_flag[k] : k \in held}]

\* SDL_PollEvent returns 0: the queue is drained; then the polled keyboard
\* state, with the keys in held down, sets the WASD flags (BLOB only)
SDL_PumpEvents(held) ==
    /\ pc = "events"
    /\ pc' = "physics"
    /\ flag' = IF BLOB THEN wasd_flags(flag, held) ELSE flag
    /\ ops' = <<"events">>
    /\ UNCHANGED <<quit, cfgVars, procVars, winVars, colVars, show_overlay, spinVars, trail,
                   blobVars, Bmatrix, curve, teardowns, call, histVars>>

EndEvents == \E held \in SUBSET WASD : SDL_PumpEvents(held)

-----------------------------------------------------------------------------
(* PHYSICS UPDATE *)

PhysicsTick(rnd) ==
    /\ pc = "physics"
    /\ IF RAT_CIRCLE
       THEN /\ ticks < MaxTicks
            /\ counter' = advance(counter, speed)
       ELSE UNCHANGED counter
    /\ IF BLOB
       THEN /\ ticks < MaxBlobTicks
            /\ flag' = flags_consumed(flag)
            /\ Blob_radius' = blob_resize(flag, Blob_radius, scale)
            /\ Blob_center' = blob_move(flag, Blob_center, move_amount(Blob_radius'))
            /\ Blob_points' = blob_circle(Blob_center', Blob_radius', rnd)
       ELSE UNCHANGED <<flag, blobVars>>
    /\ ticks' = IF ~ RAT_CIRCLE /\ ~ BLOB THEN ticks ELSE ticks + 1
    /\ pc' = "render"
    /\ ops' = Append(ops, "physics")
    /\ UNCHANGED <<quit, cfgVars, procVars, winVars, colVars, show_overlay, i, ctrVars, speed,
                   RADIUS, N, COUNT, points, trail, Bmatrix, curve, teardowns,
                   call, c0>>

\* std::rand() returns RAND_MAX whenever the tick draws from it
Physics == PhysicsTick(NoJiggle)

\* std::rand() returns any of the values explored
PhysicsRand == \E rnd \in [1..Blob_N -> RandUnit] : PhysicsTick(rnd)

-----------------------------------------------------------------------------
(* RENDERING: everything is drawn on the game-art texture *)

draw_border_first == <<"border", "clear_art">>

\* clear to the background colour, then the border in the foreground colour
draw_background == <<"clear_art", "border">>

\* if( GameDemo::BLOB ): the debug circle (under show_overlay), then the blob
draw_blob == IF ~ BLOB THEN << >>
             ELSE IF show_overlay THEN <<"blob_debug", "blob">> ELSE <<"blob">>

\* if( GameDemo::RAT_CIRCLE ), if( GameDemo::RAINBOW_STATIC )
draw_spinners == IF RAT_CIRCLE THEN <<"spinners">> ELSE << >>
draw_static   == IF RAINBOW_STATIC THEN <<"static">> ELSE << >>

\* if( GameDemo::GEN_CURVE ) if (0) { Method 1 }   is never entered;
\* if (1) { Method 2 }   is entered in every frame
draw_curve == <<"curve">>

\* if( show_overlay )
draw_overlay == IF show_overlay THEN <<"overlay">> ELSE << >>

\* reading points[phase-j] outside the allocated block is undefined: the read
\* either yields some value, which is drawn, or the process is killed
RenderArt(rnd) ==
    /\ pc = "render"
    /\ IF RAT_CIRCLE
       THEN /\ trail' = trail_reads(i, bgnd_color, fgnd_color, counter, COUNT)
            /\ pc' \in IF \E j \in DOMAIN trail' : outside_buffer(trail'[j])
                       THEN {"window", "fault"} ELSE {"window"}
       ELSE /\ pc' = "window"
            /\ UNCHANGED trail
    /\ IF pc' = "fault"
       THEN /\ ops' = ops \o draw_background \o draw_blob \o draw_spinners
            /\ UNCHANGED curve
       ELSE /\ ops' = ops \o draw_background \o draw_blob \o draw_spinners
                          \o draw_static \o draw_curve \o draw_overlay
            /\ curve' = IF draw_curve = << >> THEN curve
                        ELSE [control_points |-> control_points(rnd, scale)]
    /\ UNCHANGED <<quit, cfgVars, procVars, winVars, colVars, show_overlay, spinVars,
                   flag, blobVars, Bmatrix, teardowns, call, histVars>>

\* std::rand() returns RAND_MAX in all six draws of the control points
Render == RenderArt([j \in 1..(2 * NC) |-> Float(1)])

\* std::rand() returns any of the values explored
RenderRand == \E rnd \in [1..(2 * NC) -> RandUnit] : RenderArt(rnd)

-----------------------------------------------------------------------------
(* OS WINDOW: copy the game art to the OS window *)

winrect_as_started == [x |-> 0, y |-> 0, w |-> 1 * rect(scale).w, h |-> 1 * rect(scale).h]

\* SDL_Rect winrect = {.x=0,.y=0,.w=wI.w,.h=wI.h};
winrect == [x |-> 0, y |-> 0, w |-> wI.w, h |-> wI.h]

\* the render target is the window, which is cleared to black;
\* dstrect = GameArt::scale_src_to_win(winrect, GameArt::rect); a failed
\* assert inside it aborts the process
Window ==
    /\ pc = "window"
    /\ IF scales(winrect, rect(scale)) /\ ~ scale_assert(winrect, rect(scale))
       THEN /\ pc' = "abort"
            /\ UNCHANGED dstrect
       ELSE /\ pc' = "present"
            /\ dstrect' = scale_src_to_win(winrect, rect(scale))
    /\ ops' = Append(ops, "clear_window")
    /\ UNCHANGED <<quit, cfgVars, procVars, wI, colVars, show_overlay, spinVars, trail,
                   flag, blobVars, Bmatrix, curve, teardowns, call, histVars>>

loop_never_left(q) == "events"

\* while (!quit): tested once per iteration, before the iteration starts
loop_test(q) == IF q THEN "teardown" ELSE "events"

\* SDL_RenderCopy(...); SDL_RenderPresent(ren);
draw_window == <<"copy", "present">>

\* SDL_RenderCopy(ren, GameArt::tex, &GameArt::rect, &dstrect);
\* SDL_RenderPresent(ren); then the loop tests quit: while (!quit)
Present ==
    /\ pc = "present"
    /\ pc' = loop_test(quit)
    /\ dstrect' = NoRect
    /\ curve' = NoCurve
    /\ ops' = ops \o draw_window
    /\ UNCHANGED <<quit, cfgVars, procVars, wI, colVars, show_overlay, spinVars, trail,
                   flag, blobVars, Bmatrix, teardowns, call, histVars>>

-----------------------------------------------------------------------------
(* TEARDOWN: after the loop *)

\* free(spinners[i]->points) if RAT_CIRCLE; free(Blob::points) and
\* free(Blob::points_debug) if BLOB; shutdown(); return EXIT_SUCCESS;
Teardown ==
    /\ pc = "teardown"
    /\ pc' = "done"
    /\ points' = IF RAT_CIRCLE THEN NoPoints ELSE points
    /\ Blob_points' = IF BLOB THEN NoBlobPoints ELSE Blob_points
    /\ teardowns' = teardowns + 1
    /\ status' = "EXIT_SUCCESS"
    /\ UNCHANGED <<quit, cfgVars, argv, failed, out, is_fullscreen, winVars, colVars,
                   show_overlay, i, ctrVars, counter,
                   speed, RADIUS, N, COUNT, trail, flag, Blob_center, Blob_radius,
                   Bmatrix, curve, ops, call, histVars>>

-----------------------------------------------------------------------------
(* RatCircle called outside the loop *)

\* spinners[i]->increase_resolution()
increase_resolution ==
    /\ RAT_CIRCLE
    /\ pc = "events"
    /\ N' = increase_resolution_N(N)
    /\ COUNT' = 4 * N'
    /\ points' = calc_circle_points(N', COUNT', RADIUS)
    /\ UNCHANGED <<pc, quit, cfgVars, procVars, winVars, colVars, show_overlay, i, ctrVars,
                   counter, speed, RADIUS, trail, flag, blobVars, Bmatrix, curve,
                   ops, teardowns, call, histVars>>

\* spinners[i]->decrease_resolution()
decrease_resolution ==
    /\ RAT_CIRCLE
    /\ pc = "events"
    /\ N' = decrease_resolution_N(N)
    /\ COUNT' = 4 * N'
    /\ points' = calc_circle_points(N', COUNT', RADIUS)
    /\ UNCHANGED <<pc, quit, cfgVars, procVars, winVars, colVars, show_overlay, i, ctrVars,
                   counter, speed, RADIUS, trail, flag, blobVars, Bmatrix, curve,
                   ops, teardowns, call, histVars>>

\* BezierCurves::calc_Bmatrix()
BezierCurves_calc_Bmatrix ==
    /\ pc = "setup"
    /\ Bmatrix < MaxCalls
    /\ Bmatrix' = Bmatrix + 1
    /\ UNCHANGED <<pc, quit, cfgVars, procVars, winVars, colVars, show_overlay, spinVars,
                   trail, flag, blobVars, curve, ops, teardowns, call, histVars>>

\* a call x(n, d), y(n, d): both return a float, whatever d is
RatCircle_xy ==
    /\ ~ call.returned
    /\ call' = [call EXCEPT !.returned = TRUE, !.x = x(call.n, call.d),
                            !.y = y(call.n, call.d)]
    /\ UNCHANGED <<pc, quit, cfgVars, procVars, winVars, colVars, show_overlay, spinVars, trail,
                   flag, blobVars, Bmatrix, curve, ops, teardowns, histVars>>

-----------------------------------------------------------------------------
(* Specifications *)

\* the window is resized at will; no spinner demo is built in
InitScale ==
    /\ \E s \in Scales : InitLoop(s)
    /\ InitColors({DARKGRAVEL})
    /\ InitNoSpinner

NextScale == ResizeW \/ ResizeH \/ EndEvents \/ Physics \/ Render \/ Window \/ Present

SpecScale == InitScale /\ [][NextScale]_vars

\* Shift+k and Shift+j are pressed at will
InitRadius ==
    /\ InitLoop(GameArt_scale)
    /\ InitColors({DARKGRAVEL})
    /\ InitSpinner({0}, SpawnRadius, {1}, 0..MaxC0)

NextRadius == KeyShiftK \/ KeyShiftJ \/ EndEvents \/ Physics \/ Render \/ Window \/ Present

SpecRadius == InitRadius /\ [][NextRadius]_vars

\* k and j are pressed at will
InitSpeed ==
    /\ InitLoop(GameArt_scale)
    /\ InitColors({DARKGRAVEL})
    /\ InitSpinner({0}, {MIN_RADIUS}, SpawnSpeed, 0..MaxC0)

NextSpeed == KeyK \/ KeyJ \/ EndEvents \/ Physics \/ Render \/ Window \/ Present

SpecSpeed == InitSpeed /\ [][NextSpeed]_vars

\* no key is pressed: the spinner runs at its speed.  Observation starts at a
\* counter near either end of uint16_t (the counter reaches every value: it
\* advances by speed modulo 2^16 in every frame), under any background colour
\* (Space steps through all of them)
CounterStarts == (0..MaxC0) \cup ((UINT16 - 1 - MaxC0)..(UINT16 - 1))

InitCounter ==
    /\ InitLoop(GameArt_scale)
    /\ InitColors(0..(Colors_count - 1))
    /\ InitSpinner(0..MaxI, {MIN_RADIUS}, SpawnSpeed, CounterStarts)

NextCounter == EndEvents \/ Physics \/ Render \/ Window \/ Present

SpecCounter == InitCounter /\ [][NextCounter]_vars

\* increase_resolution() and decrease_resolution() are called at will on a
\* spinner spawned at either end of the width of the spawn range
InitResolution ==
    /\ InitLoop(GameArt_scale)
    /\ InitColors({DARKGRAVEL})
    /\ InitSpinnerAt(SpawnX(GameArt_scale), {FAdd(spawn_margin(GameArt_scale), Float(1))},
                     {0}, {63}, {1}, {0})

NextResolution == increase_resolution \/ decrease_resolution

SpecResolution == InitResolution /\ [][NextResolution]_vars

\* RatCircle::x and RatCircle::y are called once with any n and d in 0..MaxND
InitUnitCircle ==
    /\ pc = "events"
    /\ InitMain(GameArt_scale)
    /\ InitBuild
    /\ InitColors({DARKGRAVEL})
    /\ InitNoSpinner
    /\ call \in [n : 0..MaxND, d : 0..MaxND, returned : {FALSE}, x : {NaN}, y : {NaN}]

NextUnitCircle == RatCircle_xy

SpecUnitCircle == InitUnitCircle /\ [][NextUnitCircle]_vars

\* a build with GEN_CURVE == true: setup calls calc_Bmatrix(), every frame
\* draws a curve through three random control points
InitCurve ==
    /\ pc = "setup"
    /\ InitMain(GameArt_scale)
    /\ InitNoBlob
    /\ GEN_CURVE = TRUE
    /\ RAINBOW_STATIC = FALSE
    /\ Bmatrix = 0
    /\ call = NoCall
    /\ InitColors({DARKGRAVEL})
    /\ InitNoSpinner

NextCurve == Setup \/ EndEvents \/ Physics \/ RenderRand \/ Window \/ Present

SpecCurve == InitCurve /\ [][NextCurve]_vars

\* any build of the demo switches; Shift+/ toggles the overlay, q and the
\* window's close button quit; W, A, S, D may be held
InitFrame ==
    /\ pc = "setup"
    /\ InitMain(GameArt_scale)
    /\ call = NoCall
    /\ InitColors({DARKGRAVEL})
    /\ GEN_CURVE \in BOOLEAN
    /\ RAINBOW_STATIC \in BOOLEAN
    /\ Bmatrix = 0
    /\ \E b \in BOOLEAN : IF b THEN InitBlob(scale) ELSE InitNoBlob
    /\ \E r \in BOOLEAN : IF r THEN InitSpinner({0, 1}, {MIN_RADIUS}, {1}, {0, NTRAIL})
                                 ELSE InitNoSpinner

NextFrame ==
    \/ Setup \/ SDL_QUIT \/ SDLK_q \/ KeySlash \/ EndEvents
    \/ Physics \/ Render \/ Window \/ Present \/ Teardown

SpecFrame == InitFrame /\ [][NextFrame]_vars

\* a build with BLOB == true on art of scale 1 or 80: k, j, h, l, with and
\* without Shift, are pressed at will and W, A, S, D may be held.  Observation
\* starts with the blob at its initial radius, or after Shift+j or Shift+k
\* have taken the radius to its least or its greatest value
BlobStarts(s) == {Float(CDiv(rect(s).w, 12)), Float(2), Float(CDiv(rect(s).w, 4))}

InitBlobDemo ==
    /\ pc = "events"
    /\ \E s \in {1, GameArt_scale} : InitMain(s)
    /\ BLOB = TRUE
    /\ Blob_center = FPoint(Float(CDiv(rect(scale).w, 2)), Float(CDiv(rect(scale).h, 2)))
    /\ Blob_radius \in BlobStarts(scale)
    /\ Blob_points = blob_circle(Blob_center, Blob_radius, NoJiggle)
    /\ GEN_CURVE = FALSE
    /\ RAINBOW_STATIC = FALSE
    /\ Bmatrix = 0
    /\ call = NoCall
    /\ InitColors({DARKGRAVEL})
    /\ InitNoSpinner

NextBlobDemo ==
    \/ KeyK \/ KeyShiftK \/ KeyJ \/ KeyShiftJ \/ SDLK_h \/ SDLK_l
    \/ EndEvents \/ Physics \/ Render \/ Window \/ Present

SpecBlobDemo == InitBlobDemo /\ [][NextBlobDemo]_vars

\* a build with BLOB == true, from the first iteration of the loop: Shift+k is
\* pressed at will, no key is held, every tick draws its jiggle at random
InitBlobJiggle ==
    /\ pc = "events"
    /\ InitMain(GameArt_scale)
    /\ InitBlob(scale)
    /\ GEN_CURVE = FALSE
    /\ RAINBOW_STATIC = FALSE
    /\ Bmatrix = 0
    /\ call = NoCall
    /\ InitColors({DARKGRAVEL})
    /\ InitNoSpinner

EndEventsIdle == SDL_PumpEvents({})

NextBlobJiggle ==
    KeyShiftK \/ EndEventsIdle \/ PhysicsRand \/ Render \/ Window \/ Present

SpecBlobJiggle == InitBlobJiggle /\ [][NextBlobJiggle]_vars

\* the window is resized and F11 is pressed at will
InitWindow ==
    /\ InitLoop(GameArt_scale)
    /\ InitColors({DARKGRAVEL})
    /\ InitNoSpinner

ResizeScreenW == \E w \in ScreenSizes : SDL_WINDOWEVENT_RESIZED(w, wI.h)
ResizeScreenH == \E h \in ScreenSizes : SDL_WINDOWEVENT_RESIZED(wI.w, h)

NextWindow ==
    \/ ResizeScreenW \/ ResizeScreenH \/ KeyF11
    \/ EndEvents \/ Physics \/ Render \/ Window \/ Present

SpecWindow == InitWindow /\ [][NextWindow]_vars

\* Shift+k and Shift+j are pressed and the resolution is changed at will, on a
\* spinner of the least resolution on the art as built, and on a spinner as
\* constructed on art of scale 1, where the radius is clamped at 4
ResWindow == (1..(1 + MaxRes)) \cup ((Spinner_N - MaxRes)..Spinner_N)

InitCoherent ==
    /\ \E s \in {1, GameArt_scale} : InitLoop(s)
    /\ InitColors({DARKGRAVEL})
    /\ RAT_CIRCLE = TRUE
    /\ i = 1
    /\ center_x = FAdd(spawn_margin(scale), Float(1))
    /\ center_y = FSub(FSub(Float(rect(scale).h), spawn_margin(scale)), Float(2))
    /\ RADIUS = MIN_RADIUS
    /\ speed = 1
    /\ counter = 0
    /\ N = IF scale = 1 THEN Spinner_N ELSE 1
    /\ COUNT = 4 * N
    /\ points = calc_circle_points(N, COUNT, RADIUS)
    /\ c0 = counter

ResolutionUp   == increase_resolution /\ N' \in ResWindow
ResolutionDown == decrease_resolution /\ N' \in ResWindow

NextCoherent ==
    \/ KeyShiftK \/ KeyShiftJ \/ ResolutionUp \/ ResolutionDown
    \/ EndEvents \/ Physics \/ Render \/ Window \/ Present

SpecCoherent == InitCoherent /\ [][NextCoherent]_vars

\* calc_Bmatrix() is called up to MaxCalls times instead of under GEN_CURVE
InitBmatrix ==
    /\ pc = "setup"
    /\ InitMain(GameArt_scale)
    /\ InitNoBlob
    /\ GEN_CURVE = FALSE
    /\ RAINBOW_STATIC = FALSE
    /\ Bmatrix = 0
    /\ call = NoCall
    /\ InitColors({DARKGRAVEL})
    /\ InitNoSpinner

NextBmatrix ==
    \/ BezierCurves_calc_Bmatrix \/ Setup
    \/ EndEvents \/ Physics \/ RenderRand \/ Window \/ Present

SpecBmatrix == InitBmatrix /\ [][NextBmatrix]_vars

\* the program is started with up to MaxArgs arguments, each a number, a
\* negative number or a number followed by a letter; the platform performs
\* every setup call, or cannot perform some
ArgTokens  == {<<"7">>, <<"-", "3">>, <<"4", "0", "x">>}
ArgVectors == UNION {[1..m -> ArgTokens] : m \in 0..MaxArgs}

InitSetup ==
    /\ pc = "start"
    /\ argv \in {<<ProgName>> \o a : a \in ArgVectors}
    /\ failed = {}
    /\ out = << >>
    /\ status = "running"
    /\ is_fullscreen = FALSE
    /\ quit = FALSE
    /\ scale = GameArt_scale
    /\ wI = NoRect
    /\ dstrect = NoRect
    /\ show_overlay = FALSE
    /\ flag = NoFlags
    /\ trail = << >>
    /\ curve = NoCurve
    /\ ops = << >>
    /\ teardowns = 0
    /\ ticks = 0
    /\ InitBuild
    /\ call = NoCall
    /\ InitColors({DARKGRAVEL})
    /\ InitNoSpinner

NextSetup == Start \/ Setup \/ SetupFailure

SpecSetup == InitSetup /\ [][NextSetup]_vars

-----------------------------------------------------------------------------
(* Claims about GameArt::scale_src_to_win, checked under SpecScale.         *)
(* At pc = "present" dstrect is what scale_src_to_win returned for wI.      *)

DisplayW == wI.w
DisplayH == wI.h
ArtW     == rect(scale).w
ArtH     == rect(scale).h
Returned == pc = "present"

\* C1: whenever scale_src_to_win takes the scaling branch (both integer ratios
\* displayW/artW and displayH/artH are >= 1) its assertion holds and the
\* returned rectangle lies inside the display: x >= 0, y >= 0,
\* x+w <= displayW, y+h <= displayH.
C1_ScaledRectInsideDisplay ==
    /\ pc # "abort"
    /\ (Returned /\ DisplayW \div ArtW >= 1 /\ DisplayH \div ArtH >= 1)
        => /\ DisplayW >= dstrect.w /\ DisplayH >= dstrect.h
           /\ dstrect.x >= 0 /\ dstrect.y >= 0
           /\ dstrect.x + dstrect.w <= DisplayW
           /\ dstrect.y + dstrect.h <= DisplayH

C1_Witness ==
    /\ Returned
    /\ DisplayW \div ArtW >= 2 /\ DisplayH \div ArtH >= 2
    /\ dstrect.x > 0 /\ dstrect.y > 0
    /\ dstrect.x + dstrect.w < DisplayW

\* C2 as stated: for art 1280x720 and every display with displayW >= 1 and
\* displayH >= 1, smaller displays included, the returned rectangle is never
\* wider than displayW and never taller than displayH.
C2_NeverLargerThanDisplay ==
    (Returned /\ scale = 80 /\ DisplayW >= 1 /\ DisplayH >= 1)
        => (dstrect.w <= DisplayW /\ dstrect.h <= DisplayH)

\* C2 amended: for art 1280x720 the returned rectangle is never wider than
\* displayW and never taller than displayH when displayW >= 1280 and
\* displayH >= 720; for a display smaller than the art in either dimension
\* the 1280x720 art rectangle itself is returned.
C2_NeverLargerWhenArtFits ==
    scale = 80 =>
        /\ pc # "abort"
        /\ (Returned /\ DisplayW >= 1280 /\ DisplayH >= 720)
            => (dstrect.w <= DisplayW /\ dstrect.h <= DisplayH)
        /\ (Returned /\ (DisplayW < 1280 \/ DisplayH < 720))
            => (dstrect.w = 1280 /\ dstrect.h = 720)

C2_Witness ==
    /\ Returned /\ scale = 80
    /\ DisplayW = 2560 /\ DisplayH = 1920
    /\ dstrect.w = 2560 /\ dstrect.h = 1440

\* C3: when displayW >= artW and displayH >= artH the returned size is
\* K*artW by K*artH for an integer K >= 1, the largest with K*artW <= displayW
\* and K*artH <= displayH.
C3_LargestIntegerScale ==
    (Returned /\ DisplayW >= ArtW /\ DisplayH >= ArtH)
        => LET Kmax == dstrect.w \div ArtW
           IN  /\ Kmax >= 1
               /\ dstrect.w = Kmax * ArtW /\ dstrect.h = Kmax * ArtH
               /\ Kmax * ArtW <= DisplayW /\ Kmax * ArtH <= DisplayH
               /\ ((Kmax + 1) * ArtW > DisplayW \/ (Kmax + 1) * ArtH > DisplayH)

C3_Witness ==
    /\ Returned
    /\ DisplayW \div ArtW = 3 /\ DisplayH \div ArtH = 2
    /\ dstrect.w = 2 * ArtW /\ dstrect.h = 2 * ArtH

\* C4: if displayW < artW or displayH < artH the art rectangle is returned
\* unchanged, x = 0, y = 0, w = artW, h = artH: not scaled down, not centered;
\* art 320x180 in display 100x100 returns {0,0,320,180}.
C4_UnscaledWhenDisplaySmaller ==
    /\ (Returned /\ (DisplayW < ArtW \/ DisplayH < ArtH))
        => dstrect = [x |-> 0, y |-> 0, w |-> ArtW, h |-> ArtH]
    /\ (Returned /\ scale = 20 /\ DisplayW = 100 /\ DisplayH = 100)
        => dstrect = [x |-> 0, y |-> 0, w |-> 320, h |-> 180]

C4_Witness ==
    /\ Returned /\ scale = 20
    /\ DisplayW = 100 /\ DisplayH = 100
    /\ dstrect = [x |-> 0, y |-> 0, w |-> 320, h |-> 180]

Abs(n) == IF n < 0 THEN -n ELSE n

\* C5: when scaling applies the returned rectangle is centered with integer
\* division, x = (displayW - w)/2 and y = (displayH - h)/2, so the left and
\* right margins, and the top and bottom margins, differ by at most 1 pixel;
\* art {0,0,320,180} in display {0,0,1000,500} gives {180, 70, 640, 360}.
C5_CenteredWithinOnePixel ==
    /\ (Returned /\ DisplayW >= ArtW /\ DisplayH >= ArtH)
        => /\ dstrect.x = (DisplayW - dstrect.w) \div 2
           /\ dstrect.y = (DisplayH - dstrect.h) \div 2
           /\ Abs((DisplayW - (dstrect.x + dstrect.w)) - dstrect.x) <= 1
           /\ Abs((DisplayH - (dstrect.y + dstrect.h)) - dstrect.y) <= 1
    /\ (Returned /\ scale = 20 /\ DisplayW = 1000 /\ DisplayH = 500)
        => dstrect = [x |-> 180, y |-> 70, w |-> 640, h |-> 360]

C5_Witness ==
    /\ Returned /\ scale = 20
    /\ DisplayW = 1000 /\ DisplayH = 500
    /\ dstrect = [x |-> 180, y |-> 70, w |-> 640, h |-> 360]

\* C6: for every GameArt::scale >= 1 the art rectangle satisfies 9*w = 16*h,
\* and for every display size the rectangle returned by scale_src_to_win
\* satisfies 9*w = 16*h too, in the scaled and in the unscaled branch.
C6_AspectRatioPreserved ==
    /\ scale >= 1
    /\ 9 * rect(scale).w = 16 * rect(scale).h
    /\ Returned => 9 * dstrect.w = 16 * dstrect.h

C6_Witness ==
    /\ Returned
    /\ DisplayW \div ArtW = 2 /\ DisplayH \div ArtH = 1
    /\ 9 * DisplayW # 16 * DisplayH
    /\ dstrect.w = ArtW /\ dstrect.h = ArtH

-----------------------------------------------------------------------------
(* Claims about the spinners.  At pc = "window" trail holds the indices the *)
(* render of this frame read from the spinner's point buffer.               *)

Rendered == RAT_CIRCLE /\ pc \in {"window", "fault"}

\* C7: for every spinner, every counter value and every trail offset j in
\* [0, NTRAIL) the index used to read the point buffer for the active point
\* and its trail lies in [0, COUNT): it wraps to the end of the buffer when j
\* exceeds the phase and is never negative.
C7_TrailIndexInBuffer ==
    Rendered => \A j \in DOMAIN trail : trail[j] \in 0..(COUNT - 1)

\* C8: under any interleaving of the increase-radius (Shift+k) and
\* decrease-radius (Shift+j) operations the stored radius stays within
\* [MIN_RADIUS, MAX_RADIUS = GameArt::rect.h/2]: increasing saturates at
\* MAX_RADIUS and never overflows, wraps or decreases.
C8_RadiusWithinLimits ==
    RAT_CIRCLE => RADIUS \in MIN_RADIUS..MAX_RADIUS(scale)

\* C9: with COUNT and speed s fixed, starting from counter c0, after k physics
\* ticks the active-point index read by the renderer (stored counter % COUNT)
\* equals (c0 + k*s) mod COUNT, for every k >= 0.
C9_PhaseFollowsTicks ==
    Rendered => trail[0] = (c0 + ticks * speed) % COUNT

\* C10: after any sequence of j and k key presses from the spawn speeds every
\* spinner's speed satisfies 1 <= speed <= MAX_SPEED, and every physics tick
\* advances the spinner's counter by speed, at least 1.
C10_SpeedWithinLimits ==
    /\ [](RAT_CIRCLE => speed \in 1..MAX_SPEED)
    /\ [][pc = "physics" =>
            /\ speed >= 1
            /\ counter' = (counter + speed) % UINT16
            /\ counter' # counter]_vars

C10_Witness ==
    /\ RAT_CIRCLE
    /\ speed = MAX_SPEED
    /\ ticks >= 2
    /\ counter > c0 + MAX_SPEED

-----------------------------------------------------------------------------
(* Claims about Spinner's point buffer, checked under SpecResolution.       *)

\* what calc_circle_points() last wrote: index k |-> points[k]
buffer == circle_points(points.N, points.COUNT, points.RADIUS, center_x, center_y)

\* C11: after construction and after any sequence of increase_resolution and
\* decrease_resolution calls a Spinner has 1 <= N, 4*N <= MAX_NUM_POINTS and
\* COUNT = 4*N, and every index calc_circle_points wrote is below the
\* capacity MAX_NUM_POINTS of the allocated buffer.
C11_ResolutionWithinCapacity ==
    RAT_CIRCLE =>
        /\ 1 <= N
        /\ 4 * N <= MAX_NUM_POINTS
        /\ COUNT = 4 * N
        /\ points.N = N /\ points.COUNT = COUNT
        /\ \A idx \in DOMAIN buffer : 0 <= idx /\ idx < MAX_NUM_POINTS

C11_Witness ==
    /\ RAT_CIRCLE
    /\ N = 1 /\ COUNT = 4
    /\ DOMAIN buffer = 0..3

\* C15: for N >= 1, in the 4N-point buffer calc_circle_points builds, point
\* i+N is the quarter turn (x,y) -> (-y,x) of point i for every i in [0,3N):
\* exactly so on the unit circle before scale and offset, and about
\* (center_x, center_y) after them; the first N points are x(i,N), y(i,N)
\* with x = (N^2-i^2)/(N^2+i^2) and y = 2iN/(N^2+i^2).
C15_QuarterTurnSymmetry ==
    (RAT_CIRCLE /\ N >= 1) =>
        LET u == circle_points(N, COUNT, 1, Float(0), Float(0))
            b == buffer
        IN  /\ DOMAIN b = 0..(4 * N - 1)
            /\ \A k \in 0..(N - 1) :
                   u[k] = FPoint(Rat(N * N - k * k, N * N + k * k),
                                 Rat(2 * k * N, N * N + k * k))
            /\ \A k \in 0..(3 * N - 1) :
                   LET p  == u[k]
                       bp == b[k]
                   IN  /\ u[k + N] = FPoint(FNeg(p.y), p.x)
                       /\ b[k + N] =
                              FPoint(FSub(center_x, FSub(bp.y, center_y)),
                                     FAdd(center_y, FSub(bp.x, center_x)))

C15_Witness ==
    /\ RAT_CIRCLE
    /\ N = 5 /\ RADIUS = 63
    /\ buffer[3] = FPoint(FAdd(FMul(Float(63), Rat(8, 17)), center_x),
                          FAdd(FMul(Float(63), Rat(15, 17)), center_y))
    /\ buffer[8] = FPoint(FAdd(FMul(Float(63), Rat(-15, 17)), center_x),
                          FAdd(FMul(Float(63), Rat(8, 17)), center_y))

-----------------------------------------------------------------------------
(* Claims about RatCircle::x and RatCircle::y, checked under SpecUnitCircle. *)

\* C16: for integers n and d with d > 0 and 0 <= n <= d the returned pair is
\* x = (d^2-n^2)/(d^2+n^2), y = 2nd/(d^2+n^2) as exact rationals, it lies on
\* the unit circle, x*x + y*y = 1, and both coordinates are in [0, 1].
C16_PointOnUnitCircle ==
    (call.returned /\ call.d > 0 /\ 0 <= call.n /\ call.n <= call.d) =>
        LET n == call.n
            d == call.d
        IN  /\ call.x = Rat(d * d - n * n, d * d + n * n)
            /\ call.y = Rat(2 * n * d, d * d + n * n)
            /\ FAdd(FMul(call.x, call.x), FMul(call.y, call.y)) = Float(1)
            /\ FLeq(Float(0), call.x) /\ FLeq(call.x, Float(1))
            /\ FLeq(Float(0), call.y) /\ FLeq(call.y, Float(1))

C16_Witness ==
    /\ call.returned /\ call.n = 1 /\ call.d = 2
    /\ call.x = Rat(3, 5) /\ call.y = Rat(4, 5)

\* C17: a call x(n, d) or y(n, d) with d = 0 is rejected: it returns no
\* coordinate value.
C17_ZeroDenominatorRejected == call.d = 0 => ~ call.returned

-----------------------------------------------------------------------------
(* Claims about BezierCurves, checked under SpecCurve.                      *)

\* the contents of Bmatrix, and the curve points the render block draws
Bvalue ==
    CASE Bmatrix = 0 -> Bmatrix_zero
      [] Bmatrix = 1 -> Bmatrix_once
      [] OTHER -> Bmatrix_after(Bmatrix)
curve_points == dCB_curve_points(curve.control_points, Bvalue)
CurveDrawn   == curve # NoCurve

\* C13: with the basis matrix precomputed, for any three control points and
\* every sample k in 0..K-1 the point dCB_curve_points produces, the sum over
\* j of P_j * B[j][k], equals the point the repeated interpolation
\* Q0 = (1-t)P0 + tP1, Q1 = (1-t)P1 + tP2, R = (1-t)Q0 + tQ1 gives at t = k/K,
\* in exact rational arithmetic.
C13_MatrixCurveIsAffineCurve ==
    (GEN_CURVE /\ CurveDrawn) =>
        \A k \in 0..(K - 1) :
            curve_points[k] = affine_curve_points(curve.control_points)[k]

C13_Witness ==
    /\ GEN_CURVE /\ CurveDrawn
    /\ curve.control_points[0] = FPoint(Float(320), Float(40))
    /\ curve.control_points[1] = FPoint(Float(960), Float(40))
    /\ curve.control_points[2] = FPoint(Float(960), Float(680))
    /\ curve_points[64] = FPoint(Float(800), Float(200))

\* C14: after calc_Bmatrix has run once on the zero-initialized matrix, for
\* every k in 0..K-1 with t = k/K: B[0][k] = (1-t)^2, B[1][k] = 2t(1-t) and
\* B[2][k] = t^2; the values are fixed by K and the order alone, whatever
\* control points are drawn.
C14_BernsteinBasis ==
    (GEN_CURVE /\ pc # "setup") =>
        \A k \in 0..(K - 1) :
            /\ Bvalue[0][k] = Rat((K - k) * (K - k), K * K)
            /\ Bvalue[1][k] = Rat(2 * k * (K - k), K * K)
            /\ Bvalue[2][k] = Rat(k * k, K * K)

C14_Witness ==
    /\ GEN_CURVE /\ CurveDrawn /\ Bmatrix = 1
    /\ Bvalue[0][32] = Rat(9, 16)
    /\ Bvalue[1][32] = Rat(3, 8)
    /\ Bvalue[2][32] = Rat(1, 16)

-----------------------------------------------------------------------------
(* Claims about the frame loop, checked under SpecFrame.                    *)

\* the steps logged in the current iteration, as a set
Logged == {ops[a] : a \in DOMAIN ops}

\* the iteration that wrote ops has run to its end
FrameComplete == ops # << >> /\ ops[Len(ops)] = "present"

\* C12: every frame draws exactly the shapes of the demo modes selected at
\* build time: spinners only with RAT_CIRCLE, the blob only with BLOB, the
\* static only with RAINBOW_STATIC, and the Bezier curve only with
\* GEN_CURVE; a frame of a build with GEN_CURVE = false evaluates and draws
\* no curve.
C12_OnlySelectedShapesDrawn ==
    pc = "window" =>
        /\ ("spinners" \in Logged) = RAT_CIRCLE
        /\ ("blob" \in Logged) = BLOB
        /\ ("static" \in Logged) = RAINBOW_STATIC
        /\ ("curve" \in Logged) = GEN_CURVE
        /\ (~ GEN_CURVE => ~ CurveDrawn)

\* the phase a logged step belongs to, in the order of the claim
PhaseOf(op) ==
    CASE op = "events" -> 1
      [] op = "physics" -> 2
      [] op = "clear_art" -> 3
      [] op = "border" -> 4
      [] op \in {"blob_debug", "blob", "spinners", "static", "curve"} -> 5
      [] op = "overlay" -> 6
      [] op = "clear_window" -> 7
      [] op = "copy" -> 8
      [] op = "present" -> 9

\* the phases every iteration has
EveryFrame == {1, 2, 3, 4, 7, 8, 9}

OpsInOrder ==
    /\ \A a, b \in DOMAIN ops :
           a < b => (PhaseOf(ops[a]) <= PhaseOf(ops[b]) /\ ops[a] # ops[b])
    /\ \A a \in DOMAIN ops : \A ph \in EveryFrame :
           ph < PhaseOf(ops[a]) => \E b \in 1..(a - 1) : PhaseOf(ops[b]) = ph

\* C18: every iteration of the loop executes its phases once each and in
\* this order: drain events, physics, render to the art texture (clear to
\* the background, border, shapes, overlay), clear the window, copy the art
\* texture, present.  Present is the last step of an iteration, and no step
\* of iteration f+1 is taken before the present of iteration f.
C18_PhasesInOrder ==
    /\ [](/\ OpsInOrder
          /\ (pc = "events" /\ ops # << >>) => FrameComplete
          /\ FrameComplete => {PhaseOf(op) : op \in Logged} \cap EveryFrame = EveryFrame)
    /\ [][\/ ops' = ops
          \/ Len(ops') > Len(ops) /\ SubSeq(ops', 1, Len(ops)) = ops
          \/ (ops = << >> \/ FrameComplete) /\ ops' = <<"events">>]_vars

C18_Witness ==
    /\ pc = "events"
    /\ ops = <<"events", "physics", "clear_art", "border", "blob_debug", "blob",
               "spinners", "static", "curve", "overlay", "clear_window", "copy",
               "present">>

\* C19: quit is tested only at the top of an iteration and never reset.  When
\* a quit event (the q key or the window's close button) is handled in the
\* input phase of frame f, the physics, render, copy and present of frame f
\* still run, no frame f+1 starts, and the teardown then runs exactly once.
C19_QuitEndsAfterTheFrame ==
    /\ [](/\ teardowns = (IF pc = "done" THEN 1 ELSE 0)
          /\ pc \in {"teardown", "done"} =>
                (quit /\ FrameComplete
                      /\ {PhaseOf(op) : op \in Logged} \cap EveryFrame = EveryFrame))
    /\ [][/\ quit => quit'
          /\ (~ quit /\ quit') => (pc = "events" /\ pc' = "events")
          /\ (quit /\ pc = "events") => pc' \in {"events", "physics"}
          /\ (quit /\ pc = "present") => pc' = "teardown"
          /\ pc = "teardown" => pc' = "done"
          /\ pc # "done"]_vars

C19_Witness ==
    /\ pc = "done" /\ quit /\ teardowns = 1
    /\ FrameComplete
    /\ "physics" \in Logged /\ "curve" \in Logged /\ "copy" \in Logged

-----------------------------------------------------------------------------
(* Claims about the Blob's intent flags, checked under SpecBlobDemo.        *)

FlagsClear == \A f \in Flags : ~ flag[f]

\* one step of size m along an axis, taken once for each flag that is set
Stepped(from, plus, minus, m) ==
    FSub(FAdd(from, IF plus THEN m ELSE Float(0)), IF minus THEN m ELSE Float(0))

\* C20: with BLOB active, every intent flag (up, down, left, right, bigger,
\* smaller) that is true when a physics phase starts is applied exactly once
\* in that phase -- the radius changes by 1 and is clamped to [2, rect.w/4],
\* the centre moves by radius/4 -- and is reset to false; when the physics
\* phase ends all six flags are false.
C20_FlagsAppliedOnce ==
    /\ []((BLOB /\ pc \in {"render", "window", "present"}) => FlagsClear)
    /\ [][(BLOB /\ pc = "physics") =>
            LET lo == Float(2)
                hi == Float(rect(scale).w \div 4)
                r1 == IF ~ flag.smaller THEN Blob_radius
                      ELSE IF FLeq(FSub(Blob_radius, Float(1)), lo) THEN lo
                      ELSE FSub(Blob_radius, Float(1))
                r2 == IF ~ flag.bigger THEN r1
                      ELSE IF FLeq(hi, FAdd(r1, Float(1))) THEN hi
                      ELSE FAdd(r1, Float(1))
                m  == FMul(Blob_radius', Rat(1, 4))
            IN  /\ \A f \in Flags : ~ flag'[f]
                /\ Blob_radius' = r2
                /\ Blob_center'.x = Stepped(Blob_center.x, flag.right, flag.left, m)
                /\ Blob_center'.y = Stepped(Blob_center.y, flag.down, flag.up, m)]_vars

C20_Witness ==
    /\ BLOB /\ pc = "render" /\ FlagsClear /\ scale = GameArt_scale
    /\ Blob_radius = Float(107)
    /\ Blob_center = FPoint(Rat(2667, 4), Float(360))
    /\ ticks = 1

-----------------------------------------------------------------------------
(* Claims about the Blob buffers, checked under SpecBlobJiggle.             *)

\* what "Make the circle" last wrote: points and points_debug, index k |-> [k]
Blob_buffers ==
    make_the_circle(Blob_points.center, Blob_points.radius, Blob_points.jiggle)

BlobRender == BLOB /\ pc = "render"

\* C21: with BLOB active, at every render phase both Blob buffers (points and
\* points_debug) are closed polygons, element FULL-1 equal to element 0, and
\* both were recomputed in the physics phase of the same frame from the
\* current center and radius.
C21_BlobBuffersClosedAndCurrent ==
    BlobRender =>
        LET B == Blob_buffers
        IN  /\ DOMAIN B.points = 0..(Blob_FULL - 1)
            /\ DOMAIN B.points_debug = 0..(Blob_FULL - 1)
            /\ B.points[Blob_FULL - 1] = B.points[0]
            /\ B.points_debug[Blob_FULL - 1] = B.points_debug[0]
            /\ ops = <<"events", "physics">>
            /\ Blob_points.center = Blob_center
            /\ Blob_points.radius = Blob_radius

\* a render phase after Shift+k made the blob bigger in this frame's physics
\* phase, with draws that jiggle the first point away from the last
C21_Witness ==
    /\ BlobRender
    /\ Blob_radius = Float(CDiv(rect(scale).w, 12) + 1)
    /\ Blob_points.jiggle[1] # Blob_points.jiggle[Blob_N]

\* C22: in each Blob physics tick exactly one random value r is drawn per
\* first-quarter point i in [0, N); in unit space the jittered point is the
\* debug point plus (JIGAMT*(r-0.5), JIGAMT*(r-0.5)), the debug buffer is not
\* displaced, and the other three quarters are the already-jittered quarter
\* rotated.  In the buffers, every point but the closing one is the unit-space
\* point scaled by the radius and offset by the center.
C22_OneJigglePerPoint ==
    BlobRender =>
        LET B == Blob_buffers
            r == Blob_points.jiggle
            c == Blob_center
            R == Blob_radius
            D == Stored([k \in 0..(Blob_FULL - 1) |->
                    CASE k < Blob_N -> FPoint(x(k, Blob_N), y(k, Blob_N))
                      [] k < 2 * Blob_N ->
                           FPoint(FNeg(y(k - Blob_N, Blob_N)), x(k - Blob_N, Blob_N))
                      [] k < 3 * Blob_N ->
                           FPoint(FNeg(x(k - 2 * Blob_N, Blob_N)),
                                  FNeg(y(k - 2 * Blob_N, Blob_N)))
                      [] OTHER ->
                           FPoint(y(k - 3 * Blob_N, Blob_N),
                                  FNeg(x(k - 3 * Blob_N, Blob_N)))])
            d == Stored([k \in 0..(Blob_N - 1) |->
                            FMul(JIGAMT, FSub(r[k + 1], Rat(1, 2)))])
            P == [k \in 0..(Blob_FULL - 1) |->
                    CASE k < Blob_N -> FPoint(FAdd(D[k].x, d[k]), FAdd(D[k].y, d[k]))
                      [] k < 2 * Blob_N ->
                           FPoint(FNeg(FAdd(D[k - Blob_N].y, d[k - Blob_N])),
                                  FAdd(D[k - Blob_N].x, d[k - Blob_N]))
                      [] k < 3 * Blob_N ->
                           FPoint(FNeg(FAdd(D[k - 2 * Blob_N].x, d[k - 2 * Blob_N])),
                                  FNeg(FAdd(D[k - 2 * Blob_N].y, d[k - 2 * Blob_N])))
                      [] OTHER ->
                           FPoint(FAdd(D[k - 3 * Blob_N].y, d[k - 3 * Blob_N]),
                                  FNeg(FAdd(D[k - 3 * Blob_N].x, d[k - 3 * Blob_N])))]
        IN  /\ DOMAIN r = 1..Blob_N
            /\ \A k \in 0..(Blob_FULL - 2) :
                  /\ B.points_debug[k] =
                        FPoint(FAdd(FMul(R, D[k].x), c.x), FAdd(FMul(R, D[k].y), c.y))
                  /\ B.points[k] =
                        FPoint(FAdd(FMul(R, P[k].x), c.x), FAdd(FMul(R, P[k].y), c.y))

\* a render phase after a tick whose draws differ from point to point
C22_Witness ==
    /\ BlobRender
    /\ Blob_points.jiggle[1] = Float(0)
    /\ Blob_points.jiggle[2] = Float(1)
    /\ Blob_buffers.points[1] # Blob_buffers.points_debug[1]

-----------------------------------------------------------------------------
(* Claims about the setup of main(), checked under SpecSetup.               *)

\* the setup calls the specification names: graphics backend
\* initialization, window creation, renderer creation, art texture creation
\* and setting the texture blend mode
FatalCalls == {"SDL_Init", "SDL_CreateWindow", "SDL_CreateRenderer",
               "SDL_CreateTexture", "SDL_SetTextureBlendMode"}

\* C23: if any setup call fails (graphics backend initialization, window
\* creation, renderer creation, art texture creation, or setting the texture
\* blend mode), the program prints a diagnostic, runs teardown, exits with a
\* non-zero status and never enters the game loop; every setup call is
\* made at most once.
C23_FailedSetupEndsTheProgram ==
    failed \cap FatalCalls # {} =>
        /\ pc = "done"
        /\ Len(out) = 1
        /\ teardowns = 1
        /\ status = "EXIT_FAILURE"

\* C26: WindowInfo parses up to four positional integers x y w h left to
\* right: with m supplied arguments (0 <= m <= 4) exactly the first m of
\* (x, y, w, h) are overwritten and the others keep their defaults x = 50,
\* y = 50, w = 2*artWidth, h = 2*artHeight.
C26_ArgumentsOverwriteDefaults ==
    pc # "start" =>
        LET m        == Len(argv) - 1
            defaults == <<50, 50, 2 * rect(scale).w, 2 * rect(scale).h>>
            value(k) == IF k <= m THEN atoi(argv[k + 1]) ELSE defaults[k]
        IN  wI = [x |-> value(1), y |-> value(2), w |-> value(3), h |-> value(4)]

-----------------------------------------------------------------------------
(* Claims about the input phase.                                            *)

\* C24: the input phase (event drain and keyboard polling) changes only
\* boolean flags, scalar counters and settings and the recorded window size;
\* it leaves every Spinner point buffer and every Blob point buffer unchanged,
\* recomputes no points (no calc_circle_points call) and draws nothing.
\* Checked under SpecRadius.
C24_InputPhaseLeavesBuffers ==
    [][pc = "events" =>
          /\ points' = points
          /\ Blob_points' = Blob_points
          /\ trail' = trail
          /\ curve' = curve]_vars

\* C25: in every frame the destination rectangle of the composite phase is
\* computed from the display size recorded by the most recent resize or
\* fullscreen-toggle event processed up to and including that frame's input
\* phase (the initial WindowInfo size if there was none): the size recorded
\* when the input phase ends is not changed before the composite phase, and
\* the rectangle is scale_src_to_win of that size.  Checked under SpecWindow.
C25_CompositeUsesSizeOfThisFrame ==
    [][/\ pc # "events" => (wI' = wI /\ is_fullscreen' = is_fullscreen)
       /\ (pc = "window" /\ pc' = "present") =>
              dstrect' = scale_src_to_win([x |-> 0, y |-> 0, w |-> wI.w, h |-> wI.h],
                                          rect(scale))]_vars

\* a frame composed in fullscreen, on a display with the art's aspect ratio,
\* after the size changed in its input phase
C25_Witness ==
    /\ pc = "present"
    /\ is_fullscreen
    /\ wI.w = 2560 /\ wI.h = 1440
    /\ dstrect = [x |-> 0, y |-> 0, w |-> 2560, h |-> 1440]

-----------------------------------------------------------------------------
(* Claims about the basis matrix.                                           *)

\* C27: every call of dCB_curve_points reads a basis matrix that was filled
\* by exactly one call of calc_Bmatrix made before the game loop started and
\* that has not been written since.  Checked under SpecFrame.
C27_CurveReadsMatrixFilledOnce ==
    CurveDrawn => (Bmatrix = 1 /\ Bvalue = Bmatrix_once)

\* C30: calc_Bmatrix is idempotent: after a second call, or any number of
\* calls, Bmatrix equals the matrix the first call produced.  Checked under
\* SpecBmatrix.
C30_CalcBmatrixIdempotent ==
    Bmatrix >= 1 => Bvalue = Bmatrix_once

-----------------------------------------------------------------------------
(* Claims about the spinners' buffers and colours.                          *)

\* the i-th unit-circle point for resolution n: the rational point of
\* parameter (k mod n)/n, turned by as many quarter-circles as k div n
unit_circle_point(k, n) ==
    LET px == x(k % n, n)
        py == y(k % n, n)
    IN  CASE k \div n = 0 -> FPoint(px, py)
          [] k \div n = 1 -> FPoint(FNeg(py), px)
          [] k \div n = 2 -> FPoint(FNeg(px), FNeg(py))
          [] OTHER -> FPoint(py, FNeg(px))

\* the unit circles of the resolutions followed, tabulated once
UnitCircles ==
    [n \in ResWindow |-> Stored([k \in 0..(4 * n - 1) |-> unit_circle_point(k, n)])]

BufferCoherent ==
    LET b == Stored(buffer)
    IN  /\ DOMAIN b = 0..(COUNT - 1)
        /\ \A k \in 0..(COUNT - 1) :
              LET u == UnitCircles[N][k]
              IN  b[k] = FPoint(FAdd(FMul(Float(RADIUS), u.x), center_x),
                                FAdd(FMul(Float(RADIUS), u.y), center_y))

\* C28: at every point between operations (after construction and after
\* every radius change, resolution change or physics tick) the Spinner's
\* point buffer is coherent with its current parameters: for every i in
\* [0, COUNT), points[i] = (RADIUS*u_i.x + center_x, RADIUS*u_i.y + center_y)
\* with u_i the i-th unit-circle point for the current N; physics ticks leave
\* the buffer, N, COUNT, RADIUS and speed unchanged.  Checked under
\* SpecCoherent.
C28_BufferCoherentWithParameters ==
    /\ [](RAT_CIRCLE => BufferCoherent)
    /\ [][pc = "physics" => UNCHANGED <<points, N, COUNT, RADIUS, speed>>]_vars

\* after a physics tick, with the radius and the resolution both changed since
\* construction
C28_Witness ==
    /\ RAT_CIRCLE
    /\ pc = "render"
    /\ ticks >= 2
    /\ RADIUS = MIN_RADIUS + 2
    /\ N = Spinner_N - 1

\* C29: for every spinner i, every palette index bgnd_color in
\* [0, Colors::count) and every frame, the colour used to draw spinner i is
\* not the current background colour Colors::list[bgnd_color], and the
\* palette index used for it is in [0, Colors::count).  Checked under
\* SpecCounter.
C29_SpinnerNotInBackgroundColour ==
    Rendered =>
        /\ spinner_color(i) \in 0..(Colors_count - 1)
        /\ Colors_list[spinner_color(i) + 1] # Colors_list[bgnd_color + 1]

====
